---- MODULE Spec2Model ----
(***************************************************************************)
(* Model of cathsim/env.py: the Navigate task (episode lifecycle, reward,  *)
(* target management, contact forces, camera-matrix cache) and the         *)
(* sample_points rejection sampler.                                        *)
(*                                                                         *)
(* Units.  Lengths and rewards are fixed-point integers in units of 1e-4:  *)
(* delta 0.004 is 40, the sparse penalty -1.0 is -10000, success_reward    *)
(* 10.0 is 100000, the contact distance 0.002 is 20, the slab              *)
(* (0.0954, 0.1342) is (954, 1342).                                        *)
(*                                                                         *)
(* Scope.  The task is composed with a phantom and a guidewire attached,   *)
(* as both callers in the file do (run_env and __main__); failures raised  *)
(* by the physics engine are not modelled.                                 *)
(***************************************************************************)
EXTENDS Integers, Sequences, FiniteSets, TLC

VARIABLES
    \* configuration, Navigate.__init__ arguments
    delta, dense_reward, success_reward, image_size, sample_target,
    target_from_sites,
    \* fields of the task instance
    success, target_pos, camera_matrix, head_pos,
    \* physics state written by the task
    guidewire_pose,
    \* random sources: the caller-supplied one and the two process-wide ones
    random_state, np_random, py_random,
    \* the last call made on the task: its name, arguments and outcome
    ret,
    \* history: outcome of the latest completed reward evaluation of the
    \* episode, whether initialize_episode has completed, and the number of
    \* get_camera_matrix computations stored in the cache
    last_eval, episode_started, camera_computations,
    \* sample_points, statement by statement
    sp,
    \* two runs of the same call sequence
    runA, runB, det_calls

vars == <<delta, dense_reward, success_reward, image_size, sample_target,
          target_from_sites, success, target_pos, camera_matrix, head_pos,
          guidewire_pose, random_state, np_random, py_random, ret,
          last_eval, episode_started, camera_computations, sp,
          runA, runB, det_calls>>

configVars == <<delta, dense_reward, success_reward, image_size,
                sample_target, target_from_sites>>
taskVars   == <<success, target_pos, camera_matrix, head_pos, guidewire_pose,
                random_state, np_random, py_random, ret, last_eval,
                episode_started, camera_computations>>
detVars    == <<runA, runB, det_calls>>

----------------------------------------------------------------------------
(* Bounds *)

RandomPeriod == 2      \* number of states of each modelled random generator
NPoints      == 2      \* n_points, the batch size of sample_points
MaxContacts  == 2      \* data.ncon, the number of active contacts
MaxDraws     == 3      \* batches recorded in the sampler's history
MaxCalls     == 3      \* calls made in each of the two compared runs

----------------------------------------------------------------------------
(* Python values: None, a string, or a 3-D position *)

None     == [kind |-> "none",  name |-> "", pos |-> <<>>]
Str(s)   == [kind |-> "str",   name |-> s,  pos |-> <<>>]
Array(p) == [kind |-> "array", name |-> "", pos |-> p]

\* self._phantom.sites: site name -> position
sites == [n \in {"bca", "lcca"} |->
            IF n = "bca" THEN <<0, 1000, 0>> ELSE <<0, 1040, 0>>]

\* list(sites.keys())
site_keys == <<"bca", "lcca">>

----------------------------------------------------------------------------
(* cathsim.utils.distance: the Euclidean distance.  ISqrt is the integer   *)
(* square root; the positions the model feeds to it have an integer        *)
(* distance (Representable), so that d and -d are exact.                   *)

SqDist(a, b) ==
    (a[1] - b[1]) * (a[1] - b[1]) + (a[2] - b[2]) * (a[2] - b[2])
      + (a[3] - b[3]) * (a[3] - b[3])

ISqrt(n) == CHOOSE r \in 0..n : r * r <= n /\ (r + 1) * (r + 1) > n

distance(a, b) == ISqrt(SqDist(a, b))

Representable(a, b) == distance(a, b) * distance(a, b) = SqDist(a, b)

----------------------------------------------------------------------------
(* Navigate.compute_reward *)

SparsePenalty == 10000

compute_reward_le(achieved_goal, desired_goal, dl, dense, sr) ==
    LET d == distance(achieved_goal, desired_goal)
        succ == d <= dl
    IN  [success |-> succ,
         reward  |-> IF dense THEN (IF succ THEN sr ELSE -d)
                              ELSE (IF succ THEN sr ELSE -SparsePenalty)]

compute_reward_swapped(achieved_goal, desired_goal, dl, dense, sr) ==
    LET d == distance(achieved_goal, desired_goal)
        succ == d < dl
    IN  [success |-> succ,
         reward  |-> IF dense THEN (IF succ THEN sr ELSE -SparsePenalty)
                              ELSE (IF succ THEN sr ELSE -d)]

compute_reward(achieved_goal, desired_goal, dl, dense, sr) ==
    LET d == distance(achieved_goal, desired_goal)
        succ == d < dl
    IN  [success |-> succ,
         reward  |-> IF dense THEN (IF succ THEN sr ELSE -d)
                              ELSE (IF succ THEN sr ELSE -SparsePenalty)]

----------------------------------------------------------------------------
(* Navigate.set_target.  A string that is not a site name fails: with the  *)
(* assertion when assertions are enabled, with the KeyError of the lookup  *)
(* when they are stripped; either way before the assignment.               *)

SetTargetErrors == {"AssertionError", "KeyError"}

set_target_fallback(old, target, err) ==
    IF target.kind = "str"
    THEN IF target.name \in DOMAIN sites
         THEN [target_pos |-> Array(sites[target.name]), raised |-> ""]
         ELSE [target_pos |-> Array(sites[site_keys[1]]), raised |-> ""]
    ELSE [target_pos |-> target, raised |-> ""]

set_target(old, target, err) ==
    IF target.kind = "str"
    THEN IF target.name \in DOMAIN sites
         THEN [target_pos |-> Array(sites[target.name]), raised |-> ""]
         ELSE [target_pos |-> old, raised |-> err]
    ELSE [target_pos |-> target, raised |-> ""]

----------------------------------------------------------------------------
(* Random generators.  Each generator (the caller's RandomState, numpy's   *)
(* process-wide one, Python's process-wide one) is a deterministic stream: *)
(* a state, an output computed from the state, and a successor state.      *)

RandomStates == 0..(RandomPeriod - 1)

NextRandom(s) == (s + 1) % RandomPeriod

\* distributions.Uniform(low, high) evaluated with a random source
uniform(low, high, s) == low + (s % (high - low + 1))

random_init_distance == 10

\* UniformCircle.__call__: three draws from the supplied random source
UniformCircle(s) ==
    LET s1 == NextRandom(s)
        s2 == NextRandom(s1)
    IN  [pose |-> << uniform(-random_init_distance, random_init_distance, s),
                     uniform(-random_init_distance, random_init_distance, s1),
                     uniform(-random_init_distance, random_init_distance, s2) >>,
         random_state |-> NextRandom(s2)]

----------------------------------------------------------------------------
(* sample_points.  A mesh is the grid of points its bounding box yields    *)
(* and the set of those that lie inside the mesh.                          *)

\* trimesh.sample.volume_mesh(mesh, count): count candidates drawn with
\* numpy's process-wide generator, those inside the mesh are returned.
volume_mesh(mesh, count, s) ==
    LET cand(i) == mesh.grid[((s * count + i - 1) % Len(mesh.grid)) + 1]
        cands   == [i \in 1..count |-> cand(i)]
    IN  SelectSeq(cands, LAMBDA p : p \in mesh.inside)

is_within_limits_closed(y_bounds, point) ==
    y_bounds[1] <= point[2] /\ point[2] <= y_bounds[2]

is_within_limits(y_bounds, point) ==
    y_bounds[1] < point[2] /\ point[2] < y_bounds[2]

valid_points_of(y_bounds, points) ==
    SelectSeq(points, LAMBDA p : is_within_limits(y_bounds, p))

\* random.choice(seq) with Python's process-wide generator
random_choice(seq, s) == seq[(s % Len(seq)) + 1]

\* The whole loop.  A batch depends on numpy's state only, so after
\* RandomPeriod batches without a valid point the loop repeats itself and
\* the call never returns (returned = FALSE).
RECURSIVE sample_points_from(_, _, _, _, _, _)
sample_points_from(mesh, y_bounds, n_points, np, py, fuel) ==
    IF fuel = 0
    THEN [returned |-> FALSE, point |-> <<>>, np_random |-> np,
          py_random |-> py]
    ELSE LET points == volume_mesh(mesh, n_points, np)
             np1    == NextRandom(np)
             valid_points == valid_points_of(y_bounds, points)
         IN  IF Len(points) = 0
             THEN sample_points_from(mesh, y_bounds, n_points, np1, py,
                                     fuel - 1)
             ELSE IF Len(valid_points) = 0
             THEN sample_points_from(mesh, y_bounds, n_points, np1, py,
                                     fuel - 1)
             ELSE IF Len(valid_points) = 1
             THEN [returned |-> TRUE, point |-> valid_points[1],
                   np_random |-> np1, py_random |-> py]
             ELSE [returned |-> TRUE,
                   point |-> random_choice(valid_points, py),
                   np_random |-> np1, py_random |-> NextRandom(py)]

sample_points(mesh, y_bounds, n_points, np, py) ==
    sample_points_from(mesh, y_bounds, n_points, np, py, RandomPeriod)

----------------------------------------------------------------------------
(* Navigate.get_random_target *)

\* trimesh.load_mesh(self._phantom.simplified, scale=0.9)
PhantomMesh ==
    [grid   |-> << <<0, 954, 0>>, <<0, 2000, 0>>, <<0, 955, 0>>,
                   <<0, 1341, 0>> >>,
     inside |-> { <<0, 954, 0>>, <<0, 955, 0>>, <<0, 1341, 0>> }]

TargetSlab == <<954, 1342>>

get_random_target(from_sites, np, py) ==
    IF from_sites
    THEN LET site == site_keys[(np % Len(site_keys)) + 1]
         IN  [returned |-> TRUE, target |-> Array(sites[site]),
              np_random |-> NextRandom(np), py_random |-> py]
    ELSE LET r == sample_points(PhantomMesh, TargetSlab, NPoints, np, py)
         IN  [returned |-> r.returned, target |-> Array(r.point),
              np_random |-> r.np_random, py_random |-> r.py_random]

----------------------------------------------------------------------------
(* Camera matrix and contact forces *)

\* camera_matrix = None
CameraNone == [height |-> 0, width |-> 0, camera_id |-> 0]

\* Navigate.get_camera_matrix; the optional image_size is a sequence of
\* length at most one, <<>> standing for None.
get_camera_matrix(self_image_size, image_size_arg) ==
    LET size == IF image_size_arg = <<>> THEN self_image_size
                ELSE image_size_arg[1]
    IN  [height |-> size, width |-> size, camera_id |-> 0]

\* cathsim.utils.point2pixel: the pixel of a world point under a matrix
point2pixel(pos, matrix) == [world |-> pos, matrix |-> matrix]

\* a position left in world coordinates
world_point(pos) == [world |-> pos, matrix |-> CameraNone]

ContactDist == 20

Abs(x) == IF x < 0 THEN -x ELSE x

NoForces == [pos |-> <<>>, force |-> <<>>]

RECURSIVE contact_loop_strict(_, _, _, _, _, _)
contact_loop_strict(contacts, i, threshold, to_pixels, matrix, forces) ==
    IF i > Len(contacts) THEN forces
    ELSE LET c == contacts[i]
         IN  IF c.dist < ContactDist /\ ~(Abs(c.force) >= threshold)
             THEN contact_loop_strict(contacts, i + 1, threshold, to_pixels,
                     matrix,
                     [force |-> Append(forces.force, c.force),
                      pos   |-> Append(forces.pos,
                                  IF to_pixels # "None"
                                  THEN point2pixel(c.pos, matrix)
                                  ELSE world_point(c.pos))])
             ELSE contact_loop_strict(contacts, i + 1, threshold, to_pixels,
                                      matrix, forces)

\* the for loop of get_contact_forces, from contact i on
RECURSIVE contact_loop(_, _, _, _, _, _)
contact_loop(contacts, i, threshold, to_pixels, matrix, forces) ==
    IF i > Len(contacts) THEN forces
    ELSE LET c == contacts[i]
         IN  IF c.dist < ContactDist
             THEN IF Abs(c.force) > threshold
                  THEN contact_loop(contacts, i + 1, threshold, to_pixels,
                                    matrix, forces)
                  ELSE contact_loop(contacts, i + 1, threshold, to_pixels,
                          matrix,
                          [force |-> Append(forces.force, c.force),
                           pos   |-> Append(forces.pos,
                                       IF to_pixels # "None"
                                       THEN point2pixel(c.pos, matrix)
                                       ELSE world_point(c.pos))])
             ELSE contact_loop(contacts, i + 1, threshold, to_pixels,
                               matrix, forces)

get_contact_forces_recompute(matrix, self_image_size, contacts, threshold, to_pixels, image_size_arg) ==
    LET m == get_camera_matrix(self_image_size, <<image_size_arg>>)
    IN  [camera_matrix |-> m,
         computed      |-> TRUE,
         forces        |-> contact_loop(contacts, 1, threshold, to_pixels, m,
                                        NoForces)]

get_contact_forces(matrix, self_image_size, contacts, threshold, to_pixels, image_size_arg) ==
    LET m == IF matrix = CameraNone
             THEN get_camera_matrix(self_image_size, <<image_size_arg>>)
             ELSE matrix
    IN  [camera_matrix |-> m,
         computed      |-> (matrix = CameraNone),
         forces        |-> contact_loop(contacts, 1, threshold, to_pixels, m,
                                        NoForces)]

----------------------------------------------------------------------------
(* Inputs *)

\* physics.named.data.geom_xpos[-1]
HeadPositions == { <<0, 1000, 0>>, <<0, 1039, 0>>, <<0, 1040, 0>>,
                   <<30, 1040, 0>> }

\* arguments of set_target: None, site names, a string that is no site name,
\* a position
TargetArgs == { None, Str("bca"), Str("lcca"), Str("aorta"),
                Array(<<0, 1040, 0>>) }

\* targets a task can be constructed with (an unknown name fails __init__)
InitialTargets == { None, Str("bca"), Array(<<0, 1040, 0>>) }

Deltas     == {30, 40}
ImageSizes == {64, 80}
Thresholds == {100}
ToPixels   == {"True", "None"}

\* data.contact[i]: dist, the normal force contact_force(i)[0][0], pos
Contacts ==
    { [dist |-> 19, force |-> 100,  pos |-> <<1, 0, 0>>],
      [dist |-> 19, force |-> -101, pos |-> <<2, 0, 0>>],
      [dist |-> 20, force |-> 0,    pos |-> <<3, 0, 0>>] }

RECURSIVE SeqsUpTo(_, _)
SeqsUpTo(S, n) ==
    IF n = 0 THEN { <<>> }
    ELSE LET shorter == SeqsUpTo(S, n - 1)
         IN  shorter \cup { Append(q, x) : q \in shorter, x \in S }

ContactLists == SeqsUpTo(Contacts, MaxContacts)

----------------------------------------------------------------------------
(* The last call *)

NoRet == [op |-> "__init__", raised |-> "", target |-> None,
          achieved |-> <<>>, desired |-> None, reward |-> 0, flag |-> FALSE,
          contacts |-> <<>>, threshold |-> 0, to_pixels |-> "None",
          image_size |-> 0, forces |-> NoForces]

SpIdle == [pc |-> "idle", mesh |-> PhantomMesh, y_bounds |-> TargetSlab,
           n_points |-> 0, points |-> <<>>, valid_points |-> <<>>,
           result |-> <<>>, np_random |-> 0, py_random |-> 0,
           history |-> <<>>]

RunIdle == [random_state |-> 0, np_random |-> 0, py_random |-> 0,
            target_pos |-> None, poses |-> <<>>, targets |-> <<>>]

----------------------------------------------------------------------------
(* Navigate.__init__: the state after construction *)

Construct(deltas, denses, sizes, samples, from_sites, targets, seeds, np_states, py_states) ==
    /\ delta \in deltas
    /\ dense_reward \in denses
    /\ success_reward = 100000
    /\ image_size \in sizes
    /\ sample_target \in samples
    /\ target_from_sites \in from_sites
    /\ success = FALSE
    /\ \E t \in targets :
          /\ set_target(None, t, "AssertionError").raised = ""
          /\ target_pos = set_target(None, t, "AssertionError").target_pos
    /\ camera_matrix = CameraNone
    /\ head_pos = <<>>
    /\ guidewire_pose = <<>>
    /\ random_state \in seeds
    /\ np_random \in np_states
    /\ py_random \in py_states
    /\ ret = NoRet
    /\ last_eval = "none"
    /\ episode_started = FALSE
    /\ camera_computations = 0

Init ==
    /\ Construct(Deltas, BOOLEAN, {80}, BOOLEAN, BOOLEAN, InitialTargets,
                 {0}, RandomStates, {0})
    /\ sp = SpIdle
    /\ runA = RunIdle /\ runB = RunIdle /\ det_calls = 0

----------------------------------------------------------------------------
(* Navigate.initialize_episode *)

keep_success(s) == s

\* self.success = False
reset_success(s) == FALSE

InitializeEpisode ==
    LET pose == UniformCircle(random_state)
        t    == get_random_target(target_from_sites, np_random, py_random)
    IN  /\ sample_target => t.returned
        /\ camera_matrix' = IF camera_matrix = CameraNone
                            THEN get_camera_matrix(image_size, <<>>)
                            ELSE camera_matrix
        /\ camera_computations' = IF camera_matrix = CameraNone
                                  THEN camera_computations + 1
                                  ELSE camera_computations
        /\ guidewire_pose' = pose.pose
        /\ random_state' = pose.random_state
        /\ success' = reset_success(success)
        /\ IF sample_target
           THEN /\ target_pos' = set_target(target_pos, t.target,
                                            "AssertionError").target_pos
                /\ np_random' = t.np_random
                /\ py_random' = t.py_random
           ELSE UNCHANGED <<target_pos, np_random, py_random>>
        /\ last_eval' = "none"
        /\ episode_started' = TRUE
        /\ ret' = [NoRet EXCEPT !.op = "initialize_episode"]
        /\ UNCHANGED <<configVars, head_pos, sp, detVars>>

(* Navigate.get_reward *)
GetReward ==
    \E head \in HeadPositions :
       /\ head_pos' = head
       /\ IF target_pos.kind = "array"
          THEN /\ Representable(head, target_pos.pos)
               /\ LET r == compute_reward(head, target_pos.pos, delta,
                                          dense_reward, success_reward)
                  IN  /\ success' = r.success
                      /\ last_eval' = IF distance(head, target_pos.pos) < delta
                                      THEN "hit" ELSE "miss"
                      /\ ret' = [NoRet EXCEPT !.op = "get_reward",
                                              !.achieved = head,
                                              !.desired = target_pos,
                                              !.reward = r.reward]
          ELSE /\ ret' = [NoRet EXCEPT !.op = "get_reward",
                                       !.achieved = head,
                                       !.desired = target_pos,
                                       !.raised = "TypeError"]
               /\ UNCHANGED <<success, last_eval>>
       /\ UNCHANGED <<configVars, target_pos, camera_matrix, guidewire_pose,
                      random_state, np_random, py_random, episode_started,
                      camera_computations, sp, detVars>>

(* Navigate.compute_reward called directly *)
ComputeReward ==
    \E a \in HeadPositions, d \in { sites[n] : n \in DOMAIN sites } :
       /\ Representable(a, d)
       /\ LET r == compute_reward(a, d, delta, dense_reward, success_reward)
          IN  /\ success' = r.success
              /\ last_eval' = IF distance(a, d) < delta THEN "hit" ELSE "miss"
              /\ ret' = [NoRet EXCEPT !.op = "compute_reward",
                                      !.achieved = a,
                                      !.desired = Array(d),
                                      !.reward = r.reward]
       /\ UNCHANGED <<configVars, target_pos, camera_matrix, head_pos,
                      guidewire_pose, random_state, np_random, py_random,
                      episode_started, camera_computations, sp, detVars>>

should_terminate_always(s) == TRUE

should_terminate_episode(s) == s

(* Navigate.should_terminate_episode *)
ShouldTerminateEpisode ==
    /\ ret' = [NoRet EXCEPT !.op = "should_terminate_episode",
                            !.flag = should_terminate_episode(success)]
    /\ UNCHANGED <<configVars, success, target_pos, camera_matrix, head_pos,
                   guidewire_pose, random_state, np_random, py_random,
                   last_eval, episode_started, camera_computations, sp,
                   detVars>>

(* Navigate.set_target called by the user of the task *)
SetTarget ==
    \E t \in TargetArgs, err \in SetTargetErrors :
       LET r == set_target(target_pos, t, err)
       IN  /\ target_pos' = r.target_pos
           /\ ret' = [NoRet EXCEPT !.op = "set_target", !.target = t,
                                   !.raised = r.raised]
           /\ UNCHANGED <<configVars, success, camera_matrix, head_pos,
                          guidewire_pose, random_state, np_random, py_random,
                          last_eval, episode_started, camera_computations,
                          sp, detVars>>

(* Navigate.get_contact_forces *)
GetContactForces ==
    \E contacts \in ContactLists, threshold \in Thresholds,
       to_pixels \in ToPixels, size \in ImageSizes :
       LET r == get_contact_forces(camera_matrix, image_size, contacts,
                                   threshold, to_pixels, size)
       IN  /\ camera_matrix' = r.camera_matrix
           /\ camera_computations' = IF r.computed
                                     THEN camera_computations + 1
                                     ELSE camera_computations
           /\ ret' = [NoRet EXCEPT !.op = "get_contact_forces",
                                   !.contacts = contacts,
                                   !.threshold = threshold,
                                   !.to_pixels = to_pixels,
                                   !.image_size = size,
                                   !.forces = r.forces]
           /\ UNCHANGED <<configVars, success, target_pos, head_pos,
                          guidewire_pose, random_state, np_random, py_random,
                          last_eval, episode_started, sp, detVars>>

Next ==
    \/ InitializeEpisode
    \/ GetReward
    \/ ComputeReward
    \/ ShouldTerminateEpisode
    \/ SetTarget

Spec == Init /\ [][Next]_vars

\* the task with its contact-force query and its camera-matrix cache
InitCamera ==
    /\ Construct({40}, {TRUE}, ImageSizes, BOOLEAN, {TRUE},
                 {Str("bca")}, {0}, {0}, {0})
    /\ sp = SpIdle
    /\ runA = RunIdle /\ runB = RunIdle /\ det_calls = 0

NextCamera ==
    \/ InitializeEpisode
    \/ GetReward
    \/ ShouldTerminateEpisode
    \/ GetContactForces

SpecCamera == InitCamera /\ [][NextCamera]_vars

----------------------------------------------------------------------------
(* sample_points, statement by statement *)

Meshes ==
    { PhantomMesh,
      [grid   |-> PhantomMesh.grid, inside |-> {}],
      [grid   |-> << <<0, 1000, 0>>, <<1, 1000, 0>>, <<0, 955, 0>>,
                     <<0, 1342, 0>> >>,
       inside |-> { <<0, 1000, 0>>, <<1, 1000, 0>>, <<0, 955, 0>>,
                    <<0, 1342, 0>> }],
      [grid   |-> << <<0, 900, 0>>, <<0, 954, 0>>, <<0, 1341, 0>>,
                     <<0, 1342, 0>> >>,
       inside |-> { <<0, 900, 0>>, <<0, 954, 0>>, <<0, 1341, 0>>,
                    <<0, 1342, 0>> }] }

YBounds == { TargetSlab, <<955, 1341>>, <<1000, 1000>> }

InitSample ==
    /\ Construct({40}, {TRUE}, {80}, {FALSE}, {TRUE}, {Str("bca")}, {0}, {0}, {0})
    /\ \E np \in RandomStates, py \in RandomStates :
          sp = [SpIdle EXCEPT !.np_random = np, !.py_random = py]
    /\ runA = RunIdle /\ runB = RunIdle /\ det_calls = 0

\* the call: sample_points(mesh, y_bounds, n_points)
SampleCall ==
    /\ sp.pc \in {"idle", "returned"}
    /\ \E mesh \in Meshes, y_bounds \in YBounds, n \in 1..NPoints :
          sp' = [sp EXCEPT !.pc = "draw", !.mesh = mesh,
                           !.y_bounds = y_bounds, !.n_points = n,
                           !.points = <<>>, !.valid_points = <<>>,
                           !.result = <<>>, !.history = <<>>]
    /\ UNCHANGED <<configVars, taskVars, detVars>>

\* while True: points = trimesh.sample.volume_mesh(mesh, n_points)
SampleDraw ==
    /\ sp.pc = "draw"
    /\ Len(sp.history) < MaxDraws
    /\ LET points == volume_mesh(sp.mesh, sp.n_points, sp.np_random)
       IN  sp' = [sp EXCEPT !.pc = "check", !.points = points,
                            !.valid_points = <<>>,
                            !.np_random = NextRandom(sp.np_random),
                            !.history = Append(sp.history, points)]
    /\ UNCHANGED <<configVars, taskVars, detVars>>

\* the two continue statements
SampleRedraw ==
    /\ sp.pc = "check"
    /\ LET valid_points == valid_points_of(sp.y_bounds, sp.points)
       IN  /\ Len(sp.points) = 0 \/ Len(valid_points) = 0
           /\ sp' = [sp EXCEPT !.pc = "draw",
                               !.valid_points = IF Len(sp.points) = 0
                                                THEN <<>> ELSE valid_points]
    /\ UNCHANGED <<configVars, taskVars, detVars>>

\* the two return statements
SampleReturn ==
    /\ sp.pc = "check"
    /\ LET valid_points == valid_points_of(sp.y_bounds, sp.points)
       IN  /\ Len(sp.points) # 0
           /\ Len(valid_points) # 0
           /\ IF Len(valid_points) = 1
              THEN sp' = [sp EXCEPT !.pc = "returned",
                                    !.valid_points = valid_points,
                                    !.result = valid_points[1]]
              ELSE sp' = [sp EXCEPT !.pc = "returned",
                                    !.valid_points = valid_points,
                                    !.result = random_choice(valid_points,
                                                             sp.py_random),
                                    !.py_random = NextRandom(sp.py_random)]
    /\ UNCHANGED <<configVars, taskVars, detVars>>

NextSample ==
    \/ SampleCall
    \/ SampleDraw
    \/ SampleRedraw
    \/ SampleReturn

SpecSample == InitSample /\ [][NextSample]_vars

----------------------------------------------------------------------------
(* Two runs from a fresh task instance: the same configuration, the same   *)
(* seed of the caller-supplied random source, the same calls; the states   *)
(* of the process-wide generators are whatever they are in each run.       *)

InitDet ==
    /\ Construct({40}, {TRUE}, {80}, BOOLEAN, BOOLEAN, {Str("bca")},
                 RandomStates, {0}, {0})
    /\ sp = SpIdle
    /\ \E npA \in RandomStates, pyA \in RandomStates,
          npB \in RandomStates, pyB \in RandomStates :
          /\ runA = [RunIdle EXCEPT !.random_state = random_state,
                                    !.np_random = npA, !.py_random = pyA,
                                    !.target_pos = target_pos]
          /\ runB = [RunIdle EXCEPT !.random_state = random_state,
                                    !.np_random = npB, !.py_random = pyB,
                                    !.target_pos = target_pos]
    /\ det_calls = 0

\* initialize_episode on one run: the pose drawn and the target sampled
run_initialize_episode(run, sampling, from_sites) ==
    LET pose == UniformCircle(run.random_state)
        t    == get_random_target(from_sites, run.np_random, run.py_random)
    IN  IF sampling
        THEN [random_state |-> pose.random_state,
              np_random    |-> t.np_random,
              py_random    |-> t.py_random,
              target_pos   |-> set_target(run.target_pos, t.target,
                                          "AssertionError").target_pos,
              poses        |-> Append(run.poses, pose.pose),
              targets      |-> Append(run.targets, t.target)]
        ELSE [run EXCEPT !.random_state = pose.random_state,
                         !.poses = Append(run.poses, pose.pose)]

\* get_random_target on one run
run_get_random_target(run, from_sites) ==
    LET t == get_random_target(from_sites, run.np_random, run.py_random)
    IN  [run EXCEPT !.np_random = t.np_random, !.py_random = t.py_random,
                    !.targets = Append(run.targets, t.target)]

DetInitializeEpisode ==
    /\ det_calls < MaxCalls
    /\ sample_target =>
          /\ get_random_target(target_from_sites, runA.np_random,
                               runA.py_random).returned
          /\ get_random_target(target_from_sites, runB.np_random,
                               runB.py_random).returned
    /\ runA' = run_initialize_episode(runA, sample_target, target_from_sites)
    /\ runB' = run_initialize_episode(runB, sample_target, target_from_sites)
    /\ det_calls' = det_calls + 1
    /\ UNCHANGED <<configVars, taskVars, sp>>

DetGetRandomTarget ==
    /\ det_calls < MaxCalls
    /\ get_random_target(target_from_sites, runA.np_random,
                         runA.py_random).returned
    /\ get_random_target(target_from_sites, runB.np_random,
                         runB.py_random).returned
    /\ runA' = run_get_random_target(runA, target_from_sites)
    /\ runB' = run_get_random_target(runB, target_from_sites)
    /\ det_calls' = det_calls + 1
    /\ UNCHANGED <<configVars, taskVars, sp>>

NextDet ==
    \/ DetInitializeEpisode
    \/ DetGetRandomTarget

SpecDet == InitDet /\ [][NextDet]_vars

----------------------------------------------------------------------------
(* Properties *)

\* the last call evaluated a reward and returned
RewardEvaluated ==
    ret.op \in {"compute_reward", "get_reward"} /\ ret.raised = ""

\* squared distance between the arguments of the last reward evaluation
RetSqDist == SqDist(ret.achieved, ret.desired.pos)

\* the exact distance of the last reward evaluation
RetDist == CHOOSE r \in 0..RetSqDist : r * r = RetSqDist

\* C1: after compute_reward(a, d) the success flag is True iff
\* distance(a, d) < delta; at distance(a, d) = delta it is False.
SuccessIffWithinDelta ==
    RewardEvaluated =>
        /\ success <=> (RetSqDist < delta * delta)
        /\ RetSqDist = delta * delta => ~success

SuccessBoundaryWitness ==
    /\ RewardEvaluated
    /\ RetSqDist = delta * delta
    /\ ~success

\* C2: compute_reward returns success_reward when distance < delta in both
\* modes; otherwise -distance in dense mode and exactly -1.0 in sparse mode.
RewardValue ==
    RewardEvaluated =>
        ret.reward = IF RetSqDist < delta * delta THEN success_reward
                     ELSE IF dense_reward THEN -RetDist
                     ELSE -10000

SparseMissWitness ==
    /\ RewardEvaluated
    /\ ~dense_reward
    /\ RetSqDist > delta * delta
    /\ ret.reward = -10000

\* C3: should_terminate_episode returns True iff a reward evaluation has
\* happened since the last initialize_episode (or construction) and the
\* most recent one found distance < delta.
TerminateIffLastEvalHit ==
    ret.op = "should_terminate_episode" =>
        (ret.flag <=> last_eval = "hit")

FreshEpisodeWitness ==
    /\ ret.op = "should_terminate_episode"
    /\ episode_started
    /\ last_eval = "none"
    /\ head_pos # <<>>
    /\ ~ret.flag

\* C4: two runs with the same seeded random source and the same calls
\* produce the same initial poses and the same targets.
RunsAgree ==
    /\ runA.poses = runB.poses
    /\ runA.targets = runB.targets

\* C5: once initialize_episode has completed, target_pos is a concrete
\* 3-D point, through every later get_reward and should_terminate_episode.
TargetConcreteOnceStarted ==
    (/\ episode_started
     /\ ret.op \in {"initialize_episode", "get_reward",
                    "should_terminate_episode"})
        => target_pos.kind = "array"

\* C6 as stated: the matrix is unset after construction, the first
\* initialize_episode call computes it, and no later call changes it.
CameraComputedByFirstEpisode ==
    [][ /\ ret.op = "__init__" => camera_matrix = CameraNone
        /\ (~episode_started /\ episode_started') =>
              camera_computations' = camera_computations + 1
        /\ camera_matrix # CameraNone =>
              /\ camera_matrix' = camera_matrix
              /\ camera_computations' = camera_computations ]_vars

\* C6 amended: the matrix is unset after construction, the first
\* initialize_episode or get_contact_forces call computes it, and no later
\* call recomputes or changes it.
CameraComputedOnce ==
    [][ /\ ret.op = "__init__" =>
              camera_matrix = CameraNone /\ camera_computations = 0
        /\ (/\ camera_matrix = CameraNone
            /\ ret'.op \in {"initialize_episode", "get_contact_forces"}) =>
              /\ camera_matrix' # CameraNone
              /\ camera_computations' = 1
        /\ camera_matrix # CameraNone =>
              /\ camera_matrix' = camera_matrix
              /\ camera_computations' = camera_computations ]_vars

CameraReusedWitness ==
    /\ episode_started
    /\ ret.op = "get_contact_forces"
    /\ ret.image_size # image_size
    /\ camera_matrix # CameraNone
    /\ camera_computations = 1

\* a batch has a candidate strictly inside the slab
InSlab(p) == sp.y_bounds[1] < p[2] /\ p[2] < sp.y_bounds[2]
HasInSlab(batch) == \E i \in 1..Len(batch) : InSlab(batch[i])

\* C7: sample_points returns at the first batch with a candidate strictly
\* inside the slab, the returned point is such a candidate of that batch,
\* and a batch without one is followed by a redraw.
SamplerContract ==
    LET h == sp.history
        k == Len(h)
    IN  /\ sp.pc = "returned" =>
              /\ k >= 1
              /\ \E i \in 1..Len(h[k]) : h[k][i] = sp.result /\ InSlab(h[k][i])
              /\ \A j \in 1..(k - 1) : ~HasInSlab(h[j])
        /\ sp.pc = "check" => \A j \in 1..(k - 1) : ~HasInSlab(h[j])
        /\ sp.pc = "draw" => \A j \in 1..k : ~HasInSlab(h[j])

SamplerRedrawWitness ==
    /\ sp.pc = "returned"
    /\ Len(sp.history) >= 2
    /\ InSlab(sp.result)
    /\ \E i \in 1..Len(sp.points) : ~InSlab(sp.points[i])

SetTargetContract ==
    [][ ret'.op = "set_target" =>
          LET t == ret'.target
          IN  IF t.kind = "str" /\ t.name \notin {"bca", "lcca"}
              THEN ret'.raised # "" /\ target_pos' = target_pos
              ELSE /\ ret'.raised = ""
                   /\ target_pos' = IF t.kind = "str"
                                    THEN Array(sites[t.name]) ELSE t ]_vars

UnknownSiteWitness ==
    /\ ret.op = "set_target"
    /\ ret.target = Str("aorta")
    /\ ret.raised # ""
    /\ target_pos.kind = "array"

\* C10: the cached matrix get_contact_forces projects with is the matrix
\* for the task's image_size and for the image_size argument of the call.
CameraMatchesImageSize ==
    ret.op = "get_contact_forces" =>
        /\ camera_matrix.height = image_size
        /\ camera_matrix.height = ret.image_size

====
